---- MODULE Spec2Model ----
(***************************************************************************)
(* k-out-of-n reliability: the exact estimator, the MCX circuit that       *)
(* evaluates the k-of-n predicate, and run_simulation's statistics         *)
(* (src/qiskit_koon_mcx.py).                                               *)
(*                                                                         *)
(* Numbers.  A component probability is the rational p/PDen with p in      *)
(* 0..PDen; the exact estimator is computed in exact rational arithmetic   *)
(* (numerators over the common denominator PDen^n), so binary64 rounding   *)
(* is not modelled.  The statistics of run_simulation are computed in      *)
(* fixed point with resolution 1/SCALE; a float that numpy would make nan  *)
(* or +-inf is carried as such (records with a tag).                       *)
(***************************************************************************)
EXTENDS Integers, Sequences, FiniteSets, TLC

\* ---------------------------------------------------------------- bounds
MaxN == 3          \* longest probability vector
PDen == 4          \* probabilities are p/PDen, p in 0..PDen
MaxSims == 3       \* largest num_simulations
MaxShots == 2      \* largest numshots
SCALE == 1000      \* fixed-point resolution of the statistics

VARIABLES
    pc,               \* position in the running function
    p_list,           \* argument: sequence of numerators over PDen
    k,                \* argument: threshold
    todo,             \* k_out_of_n_variable_p_reliability: assignments still to visit (line 45)
    total_prob,       \* k_out_of_n_variable_p_reliability: accumulator (line 44), over PDen^n
    result,           \* k_out_of_n_variable_p_reliability: returned value (line 51)
    qc,               \* the circuit: sequence of gates built by reliability_circuit_variable_p
    gi,               \* index in qc of the next gate to execute
    comp,             \* basis value of the register "comp": qubit index -> bit
    out,              \* basis value of the qubit "out"
    c_out,            \* classical bit "c"
    encoded,          \* basis value the RY gates produced (the sampled outcome)
    fired,            \* number of MCX gates that flipped "out"
    num_simulations,  \* argument of run_simulation: batch count
    numshots,         \* argument of run_simulation: shots per batch
    confidence_level, \* argument of run_simulation, in percent
    quantum_probs,    \* run_simulation: the batch proportions (line 72)
    t_value,          \* run_simulation: Student-t critical value, "unset" until line 88 runs
    record            \* run_simulation: the returned dict (lines 99-106)

circuitVars == <<qc, gi, comp, out, c_out, encoded, fired>>
exactVars == <<todo, total_prob, result>>
simVars == <<num_simulations, numshots, confidence_level, quantum_probs, t_value, record>>
vars == <<pc, p_list, k, todo, total_prob, result, qc, gi, comp, out, c_out, encoded, fired,
          num_simulations, numshots, confidence_level, quantum_probs, t_value, record>>

\* ------------------------------------------------------------- arithmetic
RECURSIVE Pow(_, _)
Pow(b, e) == IF e = 0 THEN 1 ELSE b * Pow(b, e - 1)

RECURSIVE SumSeq(_)
SumSeq(s) == IF s = <<>> THEN 0 ELSE Head(s) + SumSeq(Tail(s))

Rat(n, d) == [num |-> n, den |-> d]
RatEq(a, b) == a.num * b.den = b.num * a.den

\* a float: a finite value in units of 1/SCALE, or nan, or +-inf
F(v) == [tag |-> "num", v |-> v]
NaN == [tag |-> "nan", v |-> 0]
Inf(sign) == [tag |-> "inf", v |-> sign]
\* a name that has not been assigned
Unset == [tag |-> "unset", v |-> 0]
NoRecord ==
    [classical |-> Unset, quantum_mean |-> Unset, quantum_std |-> Unset,
     ci_lower |-> Unset, ci_upper |-> Unset, relative_error |-> Unset]

\* ------------------------------------------- k_out_of_n_variable_p_reliability
\* itertools.product([0, 1], repeat=n): all bit tuples, in lexicographic order
RECURSIVE product(_)
product(n) ==
    IF n = 0 THEN << <<>> >>
    ELSE LET rest == product(n - 1)
         IN  [i \in 1..Len(rest) |-> <<0>> \o rest[i]] \o
             [i \in 1..Len(rest) |-> <<1>> \o rest[i]]

\* the threshold test with > in place of >=
PassesStrict(bits, kk) == SumSeq(bits) > kk

\* the threshold test one too low
PassesOffByOne(bits, kk) == SumSeq(bits) >= kk - 1

\* line 46: the threshold test
Passes(bits, kk) == SumSeq(bits) >= kk

\* the factor without the complement for a failed component
FactorNoComplement(bit, p_i) == p_i

\* line 49: one factor of the assignment's probability (numerator over PDen)
Factor(bit, p_i) == IF bit = 1 THEN p_i ELSE PDen - p_i

\* the product that stops one component short
RECURSIVE AssignProbDropLast(_, _)
AssignProbDropLast(bits, p) ==
    IF Len(bits) <= 1 \/ Len(p) <= 1 THEN 1
    ELSE Factor(Head(bits), Head(p)) * AssignProbDropLast(Tail(bits), Tail(p))

\* lines 47-49: prob = 1.0; for bit, p_i in zip(bits, p_list): prob *= ...
RECURSIVE AssignProb(_, _)
AssignProb(bits, p) ==
    IF bits = <<>> \/ p = <<>> THEN 1
    ELSE Factor(Head(bits), Head(p)) * AssignProb(Tail(bits), Tail(p))

\* lines 46-50: the body of the loop over assignments
LoopBody(total, bits, p, kk) ==
    IF Passes(bits, kk) THEN total + AssignProb(bits, p) ELSE total

\* lines 43-51 as a function: numerator of the returned probability over PDen^n
RECURSIVE SumOver(_, _, _, _)
SumOver(total, assignments, p, kk) ==
    IF assignments = <<>> THEN total
    ELSE SumOver(LoopBody(total, Head(assignments), p, kk), Tail(assignments), p, kk)

k_out_of_n_variable_p_reliability(p, kk) ==
    Rat(SumOver(0, product(Len(p)), p, kk), Pow(PDen, Len(p)))

\* ------------------------------------------------------------ inputs
PLists(lo) == UNION {[1..n -> 0..PDen] : n \in lo..MaxN}

\* ================================================== the exact estimator
InitExact ==
    /\ p_list \in PLists(0)
    /\ k \in 0..(MaxN + 1)
    /\ pc = "exact_loop"
    /\ todo = product(Len(p_list))
    /\ total_prob = 0
    /\ result = Rat(0, 1)
    /\ qc = <<>> /\ gi = 0 /\ comp = <<>> /\ out = 0 /\ c_out = 0
    /\ encoded = <<>> /\ fired = 0
    /\ num_simulations = 0 /\ numshots = 0 /\ confidence_level = 0
    /\ quantum_probs = <<>> /\ t_value = Unset /\ record = NoRecord

\* one iteration of the for loop of line 45
ExactStep ==
    /\ pc = "exact_loop"
    /\ todo # <<>>
    /\ total_prob' = LoopBody(total_prob, Head(todo), p_list, k)
    /\ todo' = Tail(todo)
    /\ UNCHANGED <<pc, p_list, k, result, circuitVars, simVars>>

\* line 51: return total_prob
ExactReturn ==
    /\ pc = "exact_loop"
    /\ todo = <<>>
    /\ result' = Rat(total_prob, Pow(PDen, Len(p_list)))
    /\ pc' = "exact_done"
    /\ UNCHANGED <<p_list, k, todo, total_prob, circuitVars, simVars>>

NextExact == ExactStep \/ ExactReturn

SpecExact == InitExact /\ [][NextExact]_vars

\* ============================================ reliability_circuit_variable_p
\* range(a, b) as a sequence
range(a, b) == [i \in 1..(IF b > a THEN b - a ELSE 0) |-> a + i - 1]

RECURSIVE Concat(_)
Concat(ss) == IF ss = <<>> THEN <<>> ELSE Head(ss) \o Concat(Tail(ss))

\* itertools.combinations(range(lo, n), r): increasing r-tuples, lexicographic
RECURSIVE combinations(_, _, _)
combinations(lo, n, r) ==
    IF r = 0 THEN << <<>> >>
    ELSE IF lo > n - r THEN <<>>
    ELSE LET with == combinations(lo + 1, n, r - 1)
         IN  [i \in 1..Len(with) |-> <<lo>> \o with[i]] \o combinations(lo + 1, n, r)

Elems(s) == {s[i] : i \in 1..Len(s)}

\* line 30: fail_subset = [i for i in range(n) if i not in success_subset]
FailSubset(success_subset, n) ==
    SelectSeq(range(0, n), LAMBDA i : i \notin Elems(success_subset))

XGate(q, first) == [op |-> "x", q |-> q, start |-> first]
MCXGate(first) == [op |-> "mcx", q |-> 0, start |-> first]

\* the block without the second loop of X gates
BlockNoUncompute(success_subset, n) ==
    LET fail == FailSubset(success_subset, n)
    IN  [j \in 1..Len(fail) |-> XGate(fail[j], j = 1)]
        \o <<MCXGate(fail = <<>>)>>

\* lines 30-35: the gates appended for one success_subset; "start" marks the
\* first gate of the block
Block(success_subset, n) ==
    LET fail == FailSubset(success_subset, n)
    IN  [j \in 1..Len(fail) |-> XGate(fail[j], j = 1)]
        \o <<MCXGate(fail = <<>>)>>
        \o [j \in 1..Len(fail) |-> XGate(fail[j], FALSE)]

\* the sizes starting one above the threshold
SubsetSizesAbove(kk, n) == range(kk + 1, n + 1)

\* line 28: for r in range(k, n + 1)
SubsetSizes(kk, n) == range(kk, n + 1)

\* lines 28-35
LogicGates(kk, n) ==
    LET sizes == SubsetSizes(kk, n)
        perSize(r) == LET cs == combinations(0, n, r)
                      IN  Concat([j \in 1..Len(cs) |-> Block(cs[j], n)])
    IN  Concat([j \in 1..Len(sizes) |-> perSize(sizes[j])])

\* lines 23-25: one RY per component; theta = 2 asin(sqrt(p_i)) is kept as p_i
EncodeGates(p) == [i \in 1..Len(p) |-> [op |-> "ry", q |-> i - 1, p |-> p[i]]]

\* lines 16-38: the gates of the circuit, in order
reliability_circuit_variable_p(p, kk) ==
    [enc |-> EncodeGates(p),
     logic |-> LogicGates(kk, Len(p)) \o <<[op |-> "measure", q |-> 0, start |-> TRUE]>>]

\* ------------------------------------------------- gate semantics (basis states)
Flip(b) == 1 - b

\* RY(2 asin(sqrt(p))) on |0>: measured 1 with probability p
RYOutcomes(p_i) == IF p_i = 0 THEN {0} ELSE IF p_i = PDen THEN {1} ELSE {0, 1}

\* X, MCX (controls: every component qubit, target: out) and measure on a
\* basis state st = [comp, out, c_out, fired]
ApplyGate(st, g) ==
    IF g.op = "x" THEN [st EXCEPT !.comp[g.q] = Flip(@)]
    ELSE IF g.op = "mcx" THEN
        IF \A i \in DOMAIN st.comp : st.comp[i] = 1
        THEN [st EXCEPT !.out = Flip(@), !.fired = @ + 1]
        ELSE st
    ELSE [st EXCEPT !.c_out = st.out]

RECURSIVE RunGates(_, _)
RunGates(st, gates) ==
    IF gates = <<>> THEN st ELSE RunGates(ApplyGate(st, Head(gates)), Tail(gates))

\* ======================================================= the circuit, run
CircuitProbs == {0, 1, PDen}
NoCircuit == qc = <<>> /\ gi = 0 /\ comp = <<>> /\ out = 0 /\ c_out = 0
               /\ encoded = <<>> /\ fired = 0
    /\ num_simulations = 0 /\ numshots = 0 /\ confidence_level = 0
    /\ quantum_probs = <<>> /\ t_value = Unset /\ record = NoRecord

InitCircuit ==
    /\ p_list \in UNION {[1..n -> CircuitProbs] : n \in 1..MaxN}
    /\ k \in 0..(Len(p_list) + 1)
    /\ pc = "encode"
    /\ qc = reliability_circuit_variable_p(p_list, k)
    /\ gi = 1
    /\ comp = [i \in 0..(Len(p_list) - 1) |-> 0]
    /\ encoded = [i \in 0..(Len(p_list) - 1) |-> 0]
    /\ out = 0 /\ c_out = 0 /\ fired = 0
    /\ todo = <<>> /\ total_prob = 0 /\ result = Rat(0, 1)
    /\ num_simulations = 0 /\ numshots = 0 /\ confidence_level = 0
    /\ quantum_probs = <<>> /\ t_value = Unset /\ record = NoRecord

St == [comp |-> comp, out |-> out, c_out |-> c_out, fired |-> fired]

\* line 25, per shot: the RY on qubit i leaves it 1 with probability p_i
GateRY ==
    /\ pc = "encode"
    /\ gi <= Len(qc.enc)
    /\ \E b \in RYOutcomes(qc.enc[gi].p) :
          /\ comp' = [comp EXCEPT ![qc.enc[gi].q] = b]
          /\ encoded' = [encoded EXCEPT ![qc.enc[gi].q] = b]
    /\ gi' = gi + 1
    /\ UNCHANGED <<pc, p_list, k, exactVars, qc, out, c_out, fired, simVars>>

EncodeDone ==
    /\ pc = "encode"
    /\ gi > Len(qc.enc)
    /\ pc' = "logic"
    /\ gi' = 1
    /\ UNCHANGED <<p_list, k, exactVars, qc, comp, out, c_out, encoded, fired, simVars>>

GateStep(op) ==
    /\ pc = "logic"
    /\ gi <= Len(qc.logic)
    /\ qc.logic[gi].op = op
    /\ LET st == ApplyGate(St, qc.logic[gi])
       IN  /\ comp' = st.comp
           /\ out' = st.out
           /\ c_out' = st.c_out
           /\ fired' = st.fired
    /\ gi' = gi + 1
    /\ pc' = IF op = "measure" THEN "measured" ELSE pc
    /\ UNCHANGED <<p_list, k, exactVars, qc, encoded, simVars>>

\* lines 32 and 35
GateX == GateStep("x")
\* line 33
GateMCX == GateStep("mcx")
\* line 37
GateMeasure == GateStep("measure")

NextCircuit == GateRY \/ EncodeDone \/ GateX \/ GateMCX \/ GateMeasure

SpecCircuit == InitCircuit /\ [][NextCircuit]_vars

\* ============================================================ run_simulation
\* ---- float arithmetic
Sign(v) == IF v > 0 THEN 1 ELSE IF v < 0 THEN -1 ELSE 0

FNeg(a) == IF a.tag = "nan" THEN NaN ELSE [a EXCEPT !.v = 0 - @]
FAdd(a, b) ==
    IF a.tag = "nan" \/ b.tag = "nan" THEN NaN
    ELSE IF a.tag = "inf" /\ b.tag = "inf" THEN (IF a.v = b.v THEN a ELSE NaN)
    ELSE IF a.tag = "inf" THEN a
    ELSE IF b.tag = "inf" THEN b
    ELSE F(a.v + b.v)
FSub(a, b) == FAdd(a, FNeg(b))
FAbs(a) == IF a.tag = "nan" THEN NaN ELSE IF a.tag = "inf" THEN Inf(1)
           ELSE F(IF a.v < 0 THEN 0 - a.v ELSE a.v)
FMul(a, b) ==
    IF a.tag = "nan" \/ b.tag = "nan" THEN NaN
    ELSE IF a.tag = "inf" \/ b.tag = "inf"
         THEN (IF Sign(a.v) * Sign(b.v) = 0 THEN NaN ELSE Inf(Sign(a.v) * Sign(b.v)))
    ELSE F((a.v * b.v) \div SCALE)
\* numpy float64 division: x/0 is +-inf, 0/0 is nan (a warning, no exception)
FDiv(a, b) ==
    IF a.tag = "nan" \/ b.tag = "nan" THEN NaN
    ELSE IF a.tag = "inf" THEN (IF b.tag = "inf" THEN NaN
                                ELSE Inf(IF b.v < 0 THEN 0 - a.v ELSE a.v))
    ELSE IF b.tag = "inf" THEN F(0)
    ELSE IF b.v = 0 THEN (IF a.v = 0 THEN NaN ELSE Inf(Sign(a.v)))
    ELSE F((a.v * SCALE) \div b.v)
\* a <= b on floats: false as soon as one side is nan
FLe(a, b) ==
    /\ a.tag # "nan" /\ b.tag # "nan"
    /\ IF a.tag = "inf" THEN (a.v = -1 \/ (b.tag = "inf" /\ b.v = 1))
       ELSE IF b.tag = "inf" THEN b.v = 1
       ELSE a.v <= b.v
FromRat(r) == F((r.num * SCALE) \div r.den)

RECURSIVE ISqrtBetween(_, _, _)
ISqrtBetween(x, lo, hi) ==
    IF hi - lo <= 1 THEN lo
    ELSE LET mid == (lo + hi) \div 2
         IN  IF mid * mid <= x THEN ISqrtBetween(x, mid, hi) ELSE ISqrtBetween(x, lo, mid)
ISqrt(x) == ISqrtBetween(x, 0, IF x + 1 < 46340 THEN x + 1 ELSE 46340)

\* np.sqrt of a finite value
FSqrt(a) == IF a.tag # "num" \/ a.v < 0 THEN NaN ELSE F(ISqrt(a.v * SCALE))

\* ---- the circuit, run for one shot from the sampled basis value b
ShotOutcome(circuit, b) ==
    RunGates([comp |-> b, out |-> 0, c_out |-> 0, fired |-> 0], circuit.logic).c_out

\* the basis values the RY gates of lines 23-25 can produce
Samples(circuit) ==
    {b \in [0..(Len(circuit.enc) - 1) -> {0, 1}] :
        \A i \in 1..Len(circuit.enc) : b[circuit.enc[i].q] \in RYOutcomes(circuit.enc[i].p)}

\* lines 75-79: counts.get('1', 0) of one batch, for every way the shots can fall
BatchCounts(circuit, shots) ==
    LET bits == {ShotOutcome(circuit, b) : b \in Samples(circuit)}
    IN  {SumSeq(s) : s \in [1..shots -> bits]}

\* a mean that answers 0 for no batches
MeanGuarded(probs) ==
    IF probs = <<>> THEN F(0) ELSE F(SumSeq(probs) \div Len(probs))

\* line 84: np.mean; nan on an empty array
Mean(probs) ==
    IF probs = <<>> THEN NaN ELSE F(SumSeq(probs) \div Len(probs))

\* np.std(a, ddof=1): sqrt(sum((x - mean)^2) / (N - 1))
NpStd(probs) ==
    LET m == Mean(probs)
        sq == [i \in 1..Len(probs) |-> (probs[i] - m.v) * (probs[i] - m.v)]
    IN  IF m.tag = "nan" \/ Len(probs) = 1 THEN NaN
        ELSE F(ISqrt(SumSeq(sq) \div (Len(probs) - 1)))

\* line 85
Std(probs, n_sims) == IF n_sims > 1 THEN NpStd(probs) ELSE F(0)

\* scipy.stats.t.ppf(q, df), q in units of 1/200: the critical values of the
\* Student-t table (three decimals), odd in q - 1/2; nan outside [0, 1] or df <= 0
TTable ==
    [q \in {150, 195} |->
        IF q = 150 THEN <<1000, 816, 765, 741, 727>>
        ELSE <<12706, 4303, 3182, 2776, 2571>>]
TPpf(q, df) ==
    IF df <= 0 \/ q < 0 \/ q > 200 THEN NaN
    ELSE IF q = 0 THEN Inf(-1)
    ELSE IF q = 200 THEN Inf(1)
    ELSE IF q = 100 THEN F(0)
    ELSE IF q > 100 THEN F((TTable[q][df] * SCALE) \div 1000)
    ELSE F(0 - ((TTable[200 - q][df] * SCALE) \div 1000))

\* the critical value of the lower tail, (1 - confidence_level) / 2.0
CriticalValueLowerTail(cl, n_sims) == TPpf(100 - cl, n_sims - 1)

\* line 88: the critical value; (1 + confidence_level) / 2.0 in units of 1/200
CriticalValue(cl, n_sims) == TPpf(100 + cl, n_sims - 1)

\* the interval with the t branch taken from one batch on
IntervalFromOne(mean, std, n_sims, cl) ==
    IF n_sims > 0
    THEN LET t == CriticalValue(cl, n_sims)
             se == FDiv(std, FSqrt(F(n_sims * SCALE)))
             ci_length == FMul(t, se)
         IN  [t |-> t, lower |-> FSub(mean, ci_length), upper |-> FAdd(mean, ci_length)]
    ELSE [t |-> Unset, lower |-> mean, upper |-> mean]

\* lines 87-95: the interval and the critical value used
Interval(mean, std, n_sims, cl) ==
    IF n_sims > 1
    THEN LET t == CriticalValue(cl, n_sims)
             se == FDiv(std, FSqrt(F(n_sims * SCALE)))
             ci_length == FMul(t, se)
         IN  [t |-> t, lower |-> FSub(mean, ci_length), upper |-> FAdd(mean, ci_length)]
    ELSE [t |-> Unset, lower |-> mean, upper |-> mean]

\* a relative error that answers 0 for a zero exact probability
RelativeErrorGuarded(mean, classical) ==
    IF classical.tag = "num" /\ classical.v = 0 THEN F(0)
    ELSE LET q == FDiv(FAbs(FSub(mean, classical)), classical)
         IN  IF q.tag = "num" THEN F(q.v * 100) ELSE q

\* line 97
RelativeError(mean, classical) ==
    LET q == FDiv(FAbs(FSub(mean, classical)), classical)
    IN  IF q.tag = "num" THEN F(q.v * 100) ELSE q

ConfLevels == {-50, 0, 95, 100, 150}

\* lines 58-72: the call, up to the batch loop
InitSim ==
    /\ p_list \in PLists(1)
    /\ k \in 0..(Len(p_list) + 1)
    /\ num_simulations \in 0..MaxSims
    /\ numshots \in 1..MaxShots
    /\ confidence_level \in ConfLevels
    /\ result = k_out_of_n_variable_p_reliability(p_list, k)
    /\ qc = reliability_circuit_variable_p(p_list, k)
    /\ quantum_probs = <<>>
    /\ t_value = Unset
    /\ record = NoRecord
    /\ pc = "batches"
    /\ todo = <<>> /\ total_prob = 0
    /\ gi = 0 /\ comp = <<>> /\ out = 0 /\ c_out = 0 /\ encoded = <<>> /\ fired = 0

\* lines 74-80: one batch
Batch ==
    /\ pc = "batches"
    /\ Len(quantum_probs) < num_simulations
    /\ \E counts \in BatchCounts(qc, numshots) :
          quantum_probs' = Append(quantum_probs, (counts * SCALE) \div numshots)
    /\ UNCHANGED <<pc, p_list, k, exactVars, circuitVars,
                   num_simulations, numshots, confidence_level, t_value, record>>

\* lines 83-106
Statistics ==
    /\ pc = "batches"
    /\ Len(quantum_probs) >= num_simulations
    /\ LET mean_quantum == Mean(quantum_probs)
           std_quantum == Std(quantum_probs, num_simulations)
           ci == Interval(mean_quantum, std_quantum, num_simulations, confidence_level)
           classical_prob == FromRat(result)
       IN  /\ t_value' = ci.t
           /\ record' = [classical |-> classical_prob,
                         quantum_mean |-> mean_quantum,
                         quantum_std |-> std_quantum,
                         ci_lower |-> ci.lower,
                         ci_upper |-> ci.upper,
                         relative_error |-> RelativeError(mean_quantum, classical_prob)]
    /\ pc' = "sim_done"
    /\ UNCHANGED <<p_list, k, exactVars, circuitVars,
                   num_simulations, numshots, confidence_level, quantum_probs>>

NextSim == Batch \/ Statistics

SpecSim == InitSim /\ [][NextSim]_vars

\* ================================================================ properties
n_comp == Len(p_list)
IID == \A i \in 1..Len(p_list) : p_list[i] = p_list[1]
ExactDone == pc = "exact_done"
RECURSIVE PopCount(_, _)
PopCount(b, n) == IF n = 0 THEN 0 ELSE b[n - 1] + PopCount(b, n - 1)

\* C1: with threshold k = 0 the exact estimator returns exactly 1, whatever the
\* probability vector (length 0 included).
Th_C1 == (ExactDone /\ k = 0) => RatEq(result, Rat(1, 1))
Wit_C1 == ExactDone /\ k = 0 /\ n_comp = 3 /\ p_list = <<1, 3, 2>> /\ result.num = result.den

\* C2: with threshold k > n no assignment passes the test: total_prob is never
\* incremented and the estimator returns exactly 0.
Th_C2 == (pc \in {"exact_loop", "exact_done"} /\ k > n_comp) =>
            (total_prob = 0 /\ (ExactDone => result.num = 0))
Wit_C2 == ExactDone /\ k = n_comp + 1 /\ n_comp = 2 /\ p_list = <<PDen, 3>> /\ result.num = 0

\* C3: for i.i.d. components with probability p (n >= 1) and k = n the estimator
\* returns p^n.
Th_C3 == (ExactDone /\ n_comp >= 1 /\ IID /\ k = n_comp) =>
            RatEq(result, Rat(Pow(p_list[1], n_comp), Pow(PDen, n_comp)))
Wit_C3 == ExactDone /\ n_comp = 3 /\ IID /\ k = 3 /\ p_list[1] = 3 /\ result.num = 27

\* C4: for i.i.d. components with probability p (n >= 1) and k = 1 the estimator
\* returns 1 - (1 - p)^n.
Th_C4 == (ExactDone /\ n_comp >= 1 /\ IID /\ k = 1) =>
            RatEq(result, Rat(Pow(PDen, n_comp) - Pow(PDen - p_list[1], n_comp),
                              Pow(PDen, n_comp)))
Wit_C4 == ExactDone /\ n_comp = 3 /\ IID /\ k = 1 /\ p_list[1] = 1
            /\ result.num = Pow(PDen, 3) - Pow(PDen - 1, 3)

\* ---- run_simulation
SimDone == pc = "sim_done"
MeanInInterval ==
    /\ FLe(record.ci_lower, record.quantum_mean)
    /\ FLe(record.quantum_mean, record.ci_upper)

\* C5 as stated: the interval contains the sample mean for every batch count and
\* every confidence_level.
Orig_C5 == SimDone => MeanInInterval

\* C5, amended: the interval contains the sample mean when num_simulations is 1,
\* or num_simulations > 1 and 0 <= confidence_level < 1.
Th_C5 == (SimDone /\ (num_simulations = 1 \/
                      (num_simulations > 1 /\ confidence_level \in 0..99)))
            => MeanInInterval
Wit_C5 == SimDone /\ num_simulations >= 2 /\ confidence_level = 95
            /\ record.quantum_std.v > 0
            /\ record.ci_lower.tag = "num" /\ record.ci_lower.v < record.quantum_mean.v
            /\ record.ci_upper.v > record.quantum_mean.v

\* C6: with num_simulations = 1 the interval collapses to the single batch's
\* proportion, quantum_std is 0 and no critical value is computed.
Th_C6 == (SimDone /\ num_simulations = 1) =>
            /\ record.quantum_mean = F(quantum_probs[1])
            /\ record.ci_lower = record.quantum_mean
            /\ record.ci_upper = record.quantum_mean
            /\ record.quantum_std = F(0)
            /\ t_value = Unset
Wit_C6 == SimDone /\ num_simulations = 1 /\ confidence_level = 95
            /\ record.quantum_mean.v > 0 /\ record.quantum_mean.v < SCALE
            /\ record.ci_lower = record.quantum_mean

\* C7: when the exact probability is zero the relative error is a division by
\* zero; the record holds no finite relative_error.
Th_C7 == (SimDone /\ result.num = 0) =>
            /\ record.classical = F(0)
            /\ record.relative_error.tag \in {"nan", "inf"}
Wit_C7 == SimDone /\ result.num = 0 /\ num_simulations >= 1 /\ k <= n_comp /\ k >= 1
            /\ record.quantum_mean = F(0) /\ record.relative_error = NaN

\* C8: with num_simulations = 0 the batch loop runs zero times and the mean of
\* the empty list is 0/0: mean, interval and relative error are nan.
Th_C8 == (SimDone /\ num_simulations = 0) =>
            /\ quantum_probs = <<>>
            /\ record.quantum_mean = NaN
            /\ record.ci_lower = NaN /\ record.ci_upper = NaN
            /\ record.relative_error = NaN
Wit_C8 == SimDone /\ num_simulations = 0 /\ result.num > 0 /\ result.num < result.den
            /\ record.quantum_mean = NaN

\* ---- the circuit
\* C9: for n >= 1, 0 <= k <= n + 1 and every basis value of the component
\* qubits, the output is flipped at most once, and after the gate sequence it is
\* 1 exactly when the number of ones is >= k (one MCX fired then, none otherwise).
Th_C9 ==
    /\ fired <= 1
    /\ pc = "measured" =>
          LET ones == PopCount(encoded, n_comp)
          IN  /\ (out = 1) <=> (ones >= k)
              /\ fired = (IF ones >= k THEN 1 ELSE 0)
              /\ c_out = out
Wit_C9 == pc = "measured" /\ n_comp = 3 /\ k = 2 /\ PopCount(encoded, 3) = 2
            /\ out = 1 /\ fired = 1

\* C10: between blocks and at the measurement the component register holds the
\* encoded basis value.
AtBlockBoundary ==
    \/ pc = "measured"
    \/ pc = "logic" /\ gi <= Len(qc.logic) /\ qc.logic[gi].start
Th_C10 == AtBlockBoundary => comp = encoded
Wit_C10 == pc = "logic" /\ gi > 1 /\ gi <= Len(qc.logic) /\ qc.logic[gi].start
            /\ qc.logic[gi - 1].op = "x" /\ out = 1 /\ comp = encoded

====
